---- MODULE Spec2Model ----
(***************************************************************************)
(* OSRS_Trading: the price collector (osrs_v2.py) appending /latest        *)
(* snapshots to the SQLite store, and GlobalFlipFinder (flip_finder.py)    *)
(* reading a trailing window of it and ranking flip candidates.            *)
(*                                                                         *)
(* Units.  scan_ts is in seconds, counted from the first cron minute of    *)
(* the run (the clock `now` counts cron minutes, scan_ts = now * 60).      *)
(* Prices are integers (the columns are INTEGER).  A 0.25 / 0.75 quantile  *)
(* of integers under linear interpolation is a multiple of 1/4, so the     *)
(* unrounded buy_zone, sell_zone and margin are kept in QUARTERS; values   *)
(* rounded to 1 decimal are kept in TENTHS, roi_pct (2 decimals) in        *)
(* HUNDREDTHS.  Rounding is numpy's: round half to even.                   *)
(***************************************************************************)
EXTENDS Integers, Sequences, FiniteSets, TLC

VARIABLES
    schema,         \* TRUE once the items and prices tables exist
    items,          \* items table: id -> metadata row
    prices,         \* prices table: set of rows, key (scan_ts, item_id)
    now,            \* wall clock, in cron minutes
    latest,         \* collect_latest_snapshot: index of the payload last fetched (0: none)
    pc,             \* flip_finder.main: "idle", "bounds", "done"
    since_minutes,  \* compute_flip_table's argument
    window_start,   \* load_window_dataframe's local: <<>> is None, <<v>> is v
    df,             \* the loaded data frame (set of joined rows)
    table,          \* compute_flip_table's result (sequence of rows)
    outcome         \* "none", "returned", "raised"

vars == <<schema, items, prices, now, latest,
          pc, since_minutes, window_start, df, table, outcome>>

----------------------------------------------------------------------------
(* Bounds of the model. *)

\* the clock runs over cron minutes 0 .. MaxTime
MaxTime == 2

\* number of snapshots in a pre-populated store (specification SpecAgg)
MaxScans == 6

\* largest caller-wished sample floor considered
MaxMinSamples == 6

----------------------------------------------------------------------------
(* Program constants, and what the remote API may answer. *)

\* the sample-count floor of compute_flip_table
MIN_SAMPLES == 5

\* SQL NULL / a quote side missing from the payload (payload.get -> None)
Null == 0 - 1

None == <<>>

Some(v) == <<v>>

\* the collector's /mapping response: the rows seed_mapping_if_needed stores
Mapping ==
    (1 :> [name |-> "Abyssal whip", members |-> 1, limit |-> 70]) @@
    (2 :> [name |-> "Rune scimitar", members |-> 0, limit |-> 125])

\* /latest responses the remote feed may give: item id -> quote.  Item 3 is
\* traded but has no /mapping row; a side may be missing; a feed may be
\* inconsistent (high < low) or quote 0.
Feed == <<
    (1 :> [high |-> 3, low |-> 1]) @@ (2 :> [high |-> 2, low |-> 1]),
    (1 :> [high |-> 4, low |-> 2]) @@ (2 :> [high |-> 3, low |-> 1]),
    (1 :> [high |-> 2, low |-> 0]) @@ (2 :> [high |-> Null, low |-> 1]),
    (2 :> [high |-> 1, low |-> 2]) @@ (3 :> [high |-> 5, low |-> 1])
>>

\* the window lengths (minutes) a caller passes: main takes any int(...) typed in
Windows == {0 - 1, 0, 1}

\* window lengths over a pre-populated store: the newest scan only, all but
\* the oldest scan, every scan
AggWindows == {0, MaxScans - 2, MaxScans - 1}

----------------------------------------------------------------------------
(* The collector: osrs_v2.py *)

\* PRIMARY KEY (scan_ts, item_id): is there a row with this key
HasKey(P, ts, id) == \E r \in P : r.scan_ts = ts /\ r.item_id = id

\* the rows collect_latest_snapshot builds from payload f at scan_ts ts
\* (highTime and lowTime are stored too; nothing ever reads them)
SnapshotRows(f, ts) ==
    { [scan_ts |-> ts, item_id |-> id, high |-> Feed[f][id].high, low |-> Feed[f][id].low]
        : id \in DOMAIN Feed[f] }

\* (variant) INSERT OR REPLACE: the stored row of a key in R is overwritten
InsertOrReplace(P, R) ==
    { p \in P : ~HasKey(R, p.scan_ts, p.item_id) } \cup R

\* INSERT OR IGNORE of the rows R into the table P: a row whose key is
\* already there is skipped, the stored row stays
InsertOrIgnore(P, R) == P \cup { r \in R : ~HasKey(P, r.scan_ts, r.item_id) }

\* _create_tables: CREATE TABLE IF NOT EXISTS, commit
CreateTables ==
    /\ ~schema
    /\ schema' = TRUE
    /\ UNCHANGED <<items, prices, now, latest,
                   pc, since_minutes, window_start, df, table, outcome>>

\* seed_mapping_if_needed: only when the items table is empty
SeedMappingIfNeeded ==
    /\ schema
    /\ DOMAIN items = {}
    /\ items' = Mapping
    /\ UNCHANGED <<schema, prices, now, latest,
                   pc, since_minutes, window_start, df, table, outcome>>

\* collect_latest_snapshot: fetch /latest, scan_ts = int(time.time()),
\* INSERT OR IGNORE every row, commit (the returned rowcount is only logged)
CollectLatestSnapshot(f) ==
    /\ schema
    /\ prices' = InsertOrIgnore(prices, SnapshotRows(f, now * 60))
    /\ latest' = f
    /\ UNCHANGED <<schema, items, now, pc, since_minutes, window_start, df, table, outcome>>

\* time passes: the next cron minute
Tick ==
    /\ now < MaxTime
    /\ now' = now + 1
    /\ UNCHANGED <<schema, items, prices, latest,
                   pc, since_minutes, window_start, df, table, outcome>>

----------------------------------------------------------------------------
(* The window loader: flip_finder.py *)

MaxOf(S) == CHOOSE x \in S : \A y \in S : y <= x

\* SELECT MAX(scan_ts) FROM prices: NULL on an empty table
MaxScanTs(P) == IF P = {} THEN None ELSE Some(MaxOf({ r.scan_ts : r \in P }))

\* _get_window_bounds
GetWindowBounds(P, minutes) ==
    IF MaxScanTs(P) = None THEN None ELSE Some(MaxScanTs(P)[1] - minutes * 60)

\* (variant) the SELECT with WHERE p.scan_ts > ? : the window start excluded
LoadRowsStrictlyAfter(P, I, ws) ==
    { [item_id |-> p.item_id, scan_ts |-> p.scan_ts, high |-> p.high, low |-> p.low,
       name |-> I[p.item_id].name, members |-> I[p.item_id].members,
       limit |-> I[p.item_id].limit, spread |-> p.high - p.low]
        : p \in { q \in P : /\ q.item_id \in DOMAIN I
                            /\ q.scan_ts > ws
                            /\ q.high # Null
                            /\ q.low # Null } }

\* the SELECT of load_window_dataframe, with the spread column added
LoadRows(P, I, ws) ==
    { [item_id |-> p.item_id, scan_ts |-> p.scan_ts, high |-> p.high, low |-> p.low,
       name |-> I[p.item_id].name, members |-> I[p.item_id].members,
       limit |-> I[p.item_id].limit, spread |-> p.high - p.low]
        : p \in { q \in P : /\ q.item_id \in DOMAIN I
                            /\ q.scan_ts >= ws
                            /\ q.high # Null
                            /\ q.low # Null } }

----------------------------------------------------------------------------
(* The flip aggregator: flip_finder.py, compute_flip_table *)

\* Series.round(decimals): numpy rounds n/d to the nearest integer, half to even
RoundHalfEven(n, d) ==
    LET fl  == n \div d
        rem == n - fl * d
    IN  IF 2 * rem < d THEN fl
        ELSE IF 2 * rem > d THEN fl + 1
        ELSE IF fl % 2 = 0 THEN fl ELSE fl + 1

\* (variant) .round(0) of a value given in quarters, in tenths
Round0(q4) == 10 * RoundHalfEven(q4, 4)

\* .round(1) of a value given in quarters: the result in tenths
Round1(q4) == RoundHalfEven(10 * q4, 4)

\* the values of one column of a group, ascending (duplicates kept)
RECURSIVE SortedColumn(_, _)
SortedColumn(R, col) ==
    IF R = {} THEN <<>>
    ELSE LET m == CHOOSE r \in R : \A s \in R : r[col] <= s[col]
         IN  <<m[col]>> \o SortedColumn(R \ {m}, col)

RECURSIVE SumColumn(_, _)
SumColumn(R, col) ==
    IF R = {} THEN 0
    ELSE LET m == CHOOSE r \in R : TRUE
         IN  m[col] + SumColumn(R \ {m}, col)

\* Series.quantile(num/4), linear interpolation, of the ascending values s:
\* the result in quarters
Quantile(s, num) ==
    LET n   == Len(s)
        pos == (n - 1) * num
        k   == pos \div 4
        fr  == pos % 4
        lo  == s[k + 1]
        hi  == s[IF k + 2 > n THEN n ELSE k + 2]
    IN  4 * lo + fr * (hi - lo)

\* df.groupby("item_id"): the rows of one item
Group(D, id) == { r \in D : r.item_id = id }

\* idxmax of scan_ts within the group (unique: scan_ts is part of the key)
LatestRow(R) == CHOOSE r \in R : \A s \in R : s.scan_ts <= r.scan_ts

\* meta.join(agg).join(current).join(buy_zone).join(sell_zone), and margin:
\* one unrounded row per item of the frame
Joined(D) ==
    { LET R   == Group(D, id)
          cur == LatestRow(R)
          any == CHOOSE r \in R : TRUE
          buy  == Quantile(SortedColumn(R, "low"), 1)
          sell == Quantile(SortedColumn(R, "high"), 3)
      IN  [name |-> any.name, members |-> any.members, limit |-> any.limit,
           samples |-> Cardinality(R),
           current_high |-> cur.high, current_low |-> cur.low,
           current_spread |-> cur.spread,
           spread_sum |-> SumColumn(R, "spread"),
           max_spread |-> MaxOf({ r.spread : r \in R }),
           buy_zone |-> buy, sell_zone |-> sell, margin |-> sell - buy]
        : id \in { r.item_id : r \in D } }

\* out = out[out["buy_zone"] > 0], on the unrounded buy_zone
ZoneGuard(u) == u.buy_zone > 0

\* (variant) roi_pct computed after the rounding loop, from the rounded columns
RoiPctOfRounded(u) == RoundHalfEven(10000 * Round1(u.margin), Round1(u.buy_zone))

\* roi_pct = margin / buy_zone * 100, rounded to 2 decimals: in hundredths
RoiPct(u) == RoundHalfEven(10000 * u.margin, u.buy_zone)

\* the rounding loop: the row as output, currency columns in tenths
RoundRow(u) ==
    [name |-> u.name, members |-> u.members, limit |-> u.limit,
     samples |-> u.samples,
     current_high |-> 10 * u.current_high, current_low |-> 10 * u.current_low,
     current_spread |-> 10 * u.current_spread,
     avg_spread |-> RoundHalfEven(10 * u.spread_sum, u.samples),
     max_spread |-> 10 * u.max_spread,
     buy_zone |-> Round1(u.buy_zone), sell_zone |-> Round1(u.sell_zone),
     margin |-> Round1(u.margin), roi_pct |-> RoiPct(u)]

\* (variant) the final filter without its margin test
KeepRowAnyMargin(r) == r.samples >= MIN_SAMPLES

\* (variant) the final filter without its sample floor
KeepRowAnySamples(r) == r.margin > 0

\* out = out[(out["margin"] > 0) & (out["samples"] >= 5)], on the rounded row
KeepRow(r) == r.margin > 0 /\ r.samples >= MIN_SAMPLES

\* is the sequence t in the order sort_values("margin", ascending=False) allows
SortedDesc(t) == \A i \in 1..(Len(t) - 1) : t[i].margin >= t[i + 1].margin

\* (variant) sort_values("margin") with the default ascending=True
SortValuesAscending(S) ==
    { t \in [1..Cardinality(S) -> S] :
        /\ \A i, j \in 1..Cardinality(S) : i # j => t[i] # t[j]
        /\ \A i \in 1..(Cardinality(S) - 1) : t[i].margin <= t[i + 1].margin }

\* sort_values + reset_index: every ordering of the rows the sort may give
\* (the default sort is not stable, rows of equal margin come in any order)
SortValues(S) ==
    { t \in [1..Cardinality(S) -> S] :
        /\ \A i, j \in 1..Cardinality(S) : i # j => t[i] # t[j]
        /\ SortedDesc(t) }

\* compute_flip_table on a loaded frame: the tables it may return
ComputeFlipTable(D) ==
    IF D = {} THEN { <<>> }
    ELSE SortValues({ r \in { RoundRow(u) : u \in { v \in Joined(D) : ZoneGuard(v) } }
                        : KeepRow(r) })

----------------------------------------------------------------------------
(* flip_finder.main: one compute_flip_table call, then close *)

ReturnEmpty(how) ==
    /\ pc' = "done"
    /\ outcome' = how
    /\ window_start' = None
    /\ df' = {}
    /\ table' = <<>>

\* (variant) _get_window_bounds without its None test: on an empty table
\* max_ts - since_minutes * 60 raises TypeError
StartLoadNoNoneTest(w) ==
    /\ pc = "idle"
    /\ since_minutes' = w
    /\ IF ~schema \/ MaxScanTs(prices) = None THEN ReturnEmpty("raised")
       ELSE /\ pc' = "bounds"
            /\ window_start' = GetWindowBounds(prices, w)
            /\ UNCHANGED <<df, table, outcome>>
    /\ UNCHANGED <<schema, items, prices, now, latest>>

\* compute_flip_table(since_minutes) up to the return of _get_window_bounds:
\* the MAX(scan_ts) query.  No table: sqlite3.OperationalError propagates.
StartLoad(w) ==
    /\ pc = "idle"
    /\ since_minutes' = w
    /\ IF ~schema THEN ReturnEmpty("raised")
       ELSE IF GetWindowBounds(prices, w) = None THEN ReturnEmpty("returned")
       ELSE /\ pc' = "bounds"
            /\ window_start' = GetWindowBounds(prices, w)
            /\ UNCHANGED <<df, table, outcome>>
    /\ UNCHANGED <<schema, items, prices, now, latest>>

\* the rest of the call: the sample query, then the aggregation
QueryAndCompute ==
    /\ pc = "bounds"
    /\ df' = LoadRows(prices, items, window_start[1])
    /\ table' \in ComputeFlipTable(df')
    /\ outcome' = "returned"
    /\ pc' = "done"
    /\ UNCHANGED <<schema, items, prices, now, latest, since_minutes, window_start>>

\* main's finally: finder.close(); the process ends, a later run starts afresh
Close ==
    /\ pc = "done"
    /\ pc' = "idle"
    /\ since_minutes' = 0
    /\ window_start' = None
    /\ df' = {}
    /\ table' = <<>>
    /\ outcome' = "none"
    /\ UNCHANGED <<schema, items, prices, now, latest>>

----------------------------------------------------------------------------
Init ==
    /\ schema = FALSE
    /\ items = <<>>
    /\ prices = {}
    /\ now = 0
    /\ latest = 0
    /\ pc = "idle"
    /\ since_minutes = 0
    /\ window_start = None
    /\ df = {}
    /\ table = <<>>
    /\ outcome = "none"

\* The collector process (cron, or a manual run) and the clock run beside the
\* finder, also between the finder's two queries.  Once compute_flip_table
\* has returned, the finder reads nothing more before close(): a collector
\* step there commutes with Close, and only the order Close-first is explored.
Interleaves == pc # "done"

Next ==
    \/ Interleaves /\ CreateTables
    \/ Interleaves /\ SeedMappingIfNeeded
    \/ Interleaves /\ \E f \in 1..Len(Feed) : CollectLatestSnapshot(f)
    \/ Interleaves /\ Tick
    \/ \E w \in Windows : StartLoad(w)
    \/ QueryAndCompute
    \/ Close

Spec == Init /\ [][Next]_vars

----------------------------------------------------------------------------
(* The aggregator as a function of the store: the store holds MaxScans     *)
(* snapshots, one per cron minute, each any payload of the feed; the       *)
(* finder runs against it with no writer active.                           *)

\* the prices table after snapshots fs[1], fs[2], ... at minutes 0, 1, ...
StoreOf(fs) ==
    UNION { SnapshotRows(fs[k], (k - 1) * 60) : k \in DOMAIN fs }

InitAgg ==
    /\ schema = TRUE
    /\ items = Mapping
    /\ \E fs \in [1..MaxScans -> 1..Len(Feed)] :
          /\ prices = StoreOf(fs)
          /\ latest = fs[MaxScans]
    /\ now = MaxScans - 1
    /\ pc = "idle"
    /\ since_minutes = 0
    /\ window_start = None
    /\ df = {}
    /\ table = <<>>
    /\ outcome = "none"

NextAgg ==
    \/ \E w \in AggWindows : StartLoad(w)
    \/ QueryAndCompute
    \/ Close

SpecAgg == InitAgg /\ [][NextAgg]_vars

----------------------------------------------------------------------------
(* Properties of the aggregator (specification SpecAgg) *)

Rows == { table[i] : i \in 1..Len(table) }

\* the samples of the loaded frame that belong to an output row's item
RowGroup(row) == { r \in df : r.name = row.name }

\* the unrounded zones of an item, straight from its samples, in quarters
BuyZone4(R) == Quantile(SortedColumn(R, "low"), 1)

SellZone4(R) == Quantile(SortedColumn(R, "high"), 3)

Margin4(R) == SellZone4(R) - BuyZone4(R)

Abs(x) == IF x < 0 THEN 0 - x ELSE x

\* C1: every row of the returned table carries margin > 0 and buy_zone > 0
\* (the rounded values of the row).
C1_PositiveMarginAndBuyZone ==
    \A i \in 1..Len(table) : table[i].margin > 0 /\ table[i].buy_zone > 0

\* C1's case: a row is returned whose buy_zone is the smallest positive one
\* (0.25, shown as 0.2), while another item of the frame is left out.
C1_Witness ==
    /\ pc = "done"
    /\ \E i \in 1..Len(table) : table[i].buy_zone = 2
    /\ \E r \in df : \A i \in 1..Len(table) : table[i].name # r.name

\* C2: the returned table is in descending order of the rows' margin.
C2_SortedByMarginDesc ==
    \A i, j \in 1..Len(table) : i < j => table[i].margin >= table[j].margin

\* C2's case: a table of two rows with different margins.
C2_Witness ==
    /\ pc = "done"
    /\ Len(table) >= 2
    /\ table[1].margin # table[2].margin

C5_RoiFromUnrounded ==
    \A i \in 1..Len(table) :
        LET R == RowGroup(table[i])
            b == BuyZone4(R)
            m == Margin4(R)
        IN  /\ b > 0
            /\ 2 * Abs(table[i].roi_pct * b - 10000 * m) <= b
            /\ (4 * table[i].buy_zone = 10 * b /\ 4 * table[i].margin = 10 * m)
                 => table[i].roi_pct
                      = RoundHalfEven(10000 * table[i].margin, table[i].buy_zone)

\* C5 as claimed: roi_pct = round(margin / buy_zone * 100, 2) of the margin
\* and buy_zone the row itself carries.
C5_RoiFromRow ==
    \A i \in 1..Len(table) :
        table[i].roi_pct = RoundHalfEven(10000 * table[i].margin, table[i].buy_zone)

\* C5's case: a returned row whose roi_pct is not what its own (rounded)
\* margin and buy_zone give.
C5_Witness ==
    /\ pc = "done"
    /\ \E i \in 1..Len(table) :
          table[i].roi_pct # RoundHalfEven(10000 * table[i].margin, table[i].buy_zone)

\* C8: rounding changes no filter or sort decision: the items returned are
\* exactly those whose unrounded buy_zone and margin are positive and that
\* have at least 5 samples, and two rows with different unrounded margins
\* come in descending order of the unrounded margin.
C8_RoundingIsCosmetic ==
    (pc = "done" /\ outcome = "returned") =>
        /\ { row.name : row \in Rows }
             = { r.name : r \in { q \in df :
                    LET R == { x \in df : x.name = q.name }
                    IN  /\ BuyZone4(R) > 0
                        /\ Margin4(R) > 0
                        /\ Cardinality(R) >= MIN_SAMPLES } }
        /\ \A i, j \in 1..Len(table) :
              (i < j /\ Margin4(RowGroup(table[i])) # Margin4(RowGroup(table[j])))
                 => Margin4(RowGroup(table[i])) > Margin4(RowGroup(table[j]))

\* C8's case: two rows of different unrounded margins are returned, and the
\* unrounded margin of the first is not a multiple of 0.1 (rounding changed it).
C8_Witness ==
    /\ pc = "done"
    /\ Len(table) = 2
    /\ 4 * table[1].margin # 10 * Margin4(RowGroup(table[1]))
    /\ Margin4(RowGroup(table[1])) # Margin4(RowGroup(table[2]))
----------------------------------------------------------------------------
(* Properties of the loader and the collector (specification Spec) *)

\* a stored sample the loader's three conditions admit for window start ws
Qualifies(p, ws) ==
    /\ p.scan_ts >= ws
    /\ p.high # Null
    /\ p.low # Null
    /\ p.item_id \in DOMAIN items

\* C4: with the prices table empty, or with no stored sample qualifying for
\* the window, the call returns an empty frame and an empty table and does
\* not raise.
C4_EmptyNeverRaises ==
    [][ /\ (pc = "idle" /\ pc' # "idle" /\ schema /\ prices = {})
            => (pc' = "done" /\ outcome' = "returned" /\ df' = {} /\ table' = <<>>)
        /\ (pc = "bounds" /\ pc' = "done"
              /\ \A p \in prices : ~Qualifies(p, window_start[1]))
            => (outcome' = "returned" /\ df' = {} /\ table' = <<>>) ]_vars

\* C4's case: a call with a positive window over a non-empty store in which
\* no sample qualifies has returned its empty table.
C4_Witness ==
    /\ pc = "done"
    /\ since_minutes > 0
    /\ prices # {}
    /\ window_start # None
    /\ \A p \in prices : ~Qualifies(p, window_start[1])
    /\ outcome = "returned"
    /\ table = <<>>

\* C6 as claimed: a call with a non-positive window_minutes issues no query
\* and returns no table; it ends with an error.
C6_NonPositiveRejected ==
    (pc # "idle" /\ since_minutes <= 0) => (pc = "done" /\ outcome = "raised")

\* C7: when the store's newest scan is still the one the MAX(scan_ts) query
\* read, the frame loaded holds exactly the stored samples with
\* scan_ts >= max(scan_ts) - window_minutes * 60, both quote sides present and
\* an items row; each with spread = high - low.
C7_LoadsExactlyTheWindow ==
    [][ (pc = "bounds" /\ pc' = "done"
           /\ window_start[1] = MaxOf({ p.scan_ts : p \in prices }) - since_minutes * 60)
        => LET ws == MaxOf({ p.scan_ts : p \in prices }) - since_minutes * 60
           IN  /\ \A p \in prices :
                     Qualifies(p, ws) <=>
                        \E r \in df' : /\ r.item_id = p.item_id
                                       /\ r.scan_ts = p.scan_ts
                                       /\ r.high = p.high
                                       /\ r.low = p.low
               /\ \A r \in df' :
                     /\ r.spread = r.high - r.low
                     /\ \E p \in prices : /\ r.item_id = p.item_id
                                          /\ r.scan_ts = p.scan_ts
                                          /\ r.high = p.high
                                          /\ r.low = p.low ]_vars

\* C7's case: a load has returned samples, one of them with a negative
\* spread, while the store holds a sample older than the window, a sample
\* with a quote side missing and a sample of an item without items row.
C7_Witness ==
    /\ pc = "done"
    /\ window_start # None
    /\ window_start[1] = MaxOf({ p.scan_ts : p \in prices }) - since_minutes * 60
    /\ \E r \in df : r.spread < 0
    /\ \E p \in prices : p.scan_ts < window_start[1]
    /\ \E p \in prices : p.scan_ts >= window_start[1] /\ p.high = Null
    /\ \E p \in prices : p.scan_ts >= window_start[1] /\ p.item_id \notin DOMAIN items

\* C9 as claimed: every sample a load returns has scan_ts in
\* [window_start, max_ts], max_ts being the maximum the first query read
\* (window_start + window_minutes * 60).
C9_ReadsUpToMaxTs ==
    (pc = "done" /\ window_start # None) =>
        \A r \in df : /\ r.scan_ts >= window_start[1]
                      /\ r.scan_ts <= window_start[1] + since_minutes * 60

\* C10: a stored prices row is never changed or removed (and the key
\* (scan_ts, item_id) stays unique), whatever the collector does.
C10_PricesImmutable ==
    [][ /\ prices \subseteq prices'
        /\ Cardinality({ <<r.scan_ts, r.item_id>> : r \in prices' })
             = Cardinality(prices') ]_vars

\* C10's case: the snapshot just taken held, for a key already stored in the
\* same second, a quote different from the stored one (the row stored at the
\* current second is older than the last fetch and differs from it).
C10_Witness ==
    /\ latest # 0
    /\ \E r \in prices :
          /\ r.scan_ts = now * 60
          /\ r.item_id \in DOMAIN Feed[latest]
          /\ Feed[latest][r.item_id] # [high |-> r.high, low |-> r.low]
====
